---------------------------- MODULE Spec2Model ----------------------------
(***************************************************************************)
(* Model of the nolik messaging protocol:                                  *)
(*   - cli/src/cypher.rs          the box primitive and the message cypher *)
(*   - client/src/metadata.rs     the metadata envelope (channels, hash)   *)
(*   - pallets/nolik/src/lib.rs   the pallet storing and announcing         *)
(*                                                                         *)
(* Cryptography is symbolic.  A byte string is a sequence of atoms; an     *)
(* atom is a plain byte, a digest (which remembers the bytes hashed) or a  *)
(* box (which remembers plaintext, nonce and Diffie-Hellman shared key).   *)
(* Fixed-width values (keys, nonces, digests, account ids) are one atom    *)
(* wide; entry keys and values have any length.                            *)
(***************************************************************************)
EXTENDS Integers, Sequences, FiniteSets, TLC

(* ------------------------------ bounds -------------------------------- *)
MaxEntries == 2
MaxRecipients == 2
MaxCounter == 2

(* ------------------------------ atoms --------------------------------- *)
B(n) == [t |-> "b", v |-> n]
Digest(s) == [t |-> "h", v |-> s]
Box(d, n, k) == [t |-> "c", v |-> [data |-> d, nonce |-> n, key |-> k]]

Garbage == <<[t |-> "x", v |-> 0]>>

SecretKeys == 1 .. 3
BrokerSecretKey == 4
OtherBrokerSecretKey == 5
PublicKeyOf(sk) == sk + 10
PublicKeys == {PublicKeyOf(sk) : sk \in SecretKeys}
KeyBytes(pk) == <<B(pk)>>
Nonces == 1 .. 2
NonceBytes(n) == <<B(n)>>

Shared(pk, sk) == {pk, PublicKeyOf(sk)}

Ok(x) == [ok |-> TRUE, val |-> x, err |-> "", pk |-> 0]
DecryptionFailed(pk) == [ok |-> FALSE, val |-> <<>>, err |-> "DecryptionFailed", pk |-> pk]

(* ------------------- cypher.rs: BytesCypher for [u8] ------------------ *)
\* box_::seal: never empty, the authenticator alone is 16 bytes
Seal(data, nonce, pk, sk) == <<Box(data, nonce, Shared(pk, sk))>>

\* faulty variant: a box opens under any key pair, only the nonce is compared
OpenNoKeyCheck(blob, nonce, pk, sk) ==
    IF /\ Len(blob) = 1
       /\ blob[1].t = "c"
       /\ blob[1].v.nonce = nonce
    THEN Ok(blob[1].v.data)
    ELSE DecryptionFailed(pk)

\* box_::open: authenticated, so nonce and shared key must be the sealing ones
Open(blob, nonce, pk, sk) ==
    IF /\ Len(blob) = 1
       /\ blob[1].t = "c"
       /\ blob[1].v.nonce = nonce
       /\ blob[1].v.key = Shared(pk, sk)
    THEN Ok(blob[1].v.data)
    ELSE DecryptionFailed(pk)

(* ------------------- cypher.rs: Cypher for MessageEntry --------------- *)
\* faulty variant: key and value blobs end up in each other's place
EntryEncryptSwapped(e, nonce, pk, sk) ==
    [key |-> Seal(e.value, nonce, pk, sk),
     value |-> Seal(e.key, nonce, pk, sk),
     kind |-> e.kind]

EntryEncrypt(e, nonce, pk, sk) ==
    [key |-> Seal(e.key, nonce, pk, sk),
     value |-> Seal(e.value, nonce, pk, sk),
     kind |-> e.kind]

EntryDecrypt(e, nonce, pk, sk) ==
    LET k == Open(e.key, nonce, pk, sk)
        v == Open(e.value, nonce, pk, sk)
    IN  IF ~k.ok THEN k
        ELSE IF ~v.ok THEN v
        ELSE Ok([key |-> k.val, value |-> v.val, kind |-> e.kind])

(* ------------------- cypher.rs: Cypher for Message -------------------- *)
MessageEncrypt(m, nonce, pk, sk) ==
    [entries |-> [i \in 1 .. Len(m.entries) |-> EntryEncrypt(m.entries[i], nonce, pk, sk)]]

\* collect::<Result<_, _>>(): the first Err in iteration order is returned,
\* otherwise the vector of all Ok values
RECURSIVE CollectFrom(_, _)
CollectFrom(rs, i) ==
    IF i > Len(rs) THEN Ok(<<>>)
    ELSE IF ~rs[i].ok THEN rs[i]
    ELSE LET rest == CollectFrom(rs, i + 1)
         IN  IF rest.ok THEN Ok(<<rs[i].val>> \o rest.val) ELSE rest

Collect(rs) == CollectFrom(rs, 1)

\* faulty variant: entries that do not open are skipped instead of failing the call
MessageDecryptLenient(m, nonce, pk, sk) ==
    LET rs == [i \in 1 .. Len(m.entries) |-> EntryDecrypt(m.entries[i], nonce, pk, sk)]
        good == SelectSeq(rs, LAMBDA r : r.ok)
    IN  Ok([entries |-> [i \in 1 .. Len(good) |-> good[i].val]])

MessageDecrypt(m, nonce, pk, sk) ==
    LET rs == [i \in 1 .. Len(m.entries) |-> EntryDecrypt(m.entries[i], nonce, pk, sk)]
        c == Collect(rs)
    IN  IF c.ok THEN Ok([entries |-> c.val]) ELSE c

(* ------------------- metadata.rs: commitment hash --------------------- *)
\* Blake2s256 over the concatenation of everything fed to the hasher
Finalize(updates) == <<Digest(updates)>>

RECURSIVE Concat(_)
Concat(ss) == IF ss = <<>> THEN <<>> ELSE Head(ss) \o Concat(Tail(ss))

hash_with_nonce(data, nonce) == Finalize(data \o NonceBytes(nonce))

\* faulty variant: each recipient's salted hash is hashed once more before it is fed
RecipientsHashDouble(recipients, secret_nonce) ==
    Finalize(Concat([i \in 1 .. Len(recipients) |->
                        Finalize(hash_with_nonce(KeyBytes(recipients[i]), secret_nonce))])
             \o NonceBytes(secret_nonce))

\* metadata.rs 91-96: the running hash over the recipients
RecipientsHash(recipients, secret_nonce) ==
    Finalize(Concat([i \in 1 .. Len(recipients) |->
                        hash_with_nonce(KeyBytes(recipients[i]), secret_nonce)])
             \o NonceBytes(secret_nonce))

\* faulty variant: only the entry keys are fed, the values are left out
EntriesHashKeysOnly(message, secret_nonce) ==
    Finalize(Concat([i \in 1 .. Len(message.entries) |->
                        hash_with_nonce(message.entries[i].key, secret_nonce)])
             \o NonceBytes(secret_nonce))

\* metadata.rs 98-105: the running hash over the entries (kind is not fed)
EntriesHash(message, secret_nonce) ==
    Finalize(Concat([i \in 1 .. Len(message.entries) |->
                        hash_with_nonce(message.entries[i].key, secret_nonce)
                        \o hash_with_nonce(message.entries[i].value, secret_nonce)])
             \o NonceBytes(secret_nonce))

\* the hasher state returned: the bytes fed so far, not yet finalized
compute_root_hash(origin, public_nonce, sender_pk, broker_pk, secret_nonce, recipients, message) ==
    hash_with_nonce(<<B(origin)>>, secret_nonce)
    \o hash_with_nonce(NonceBytes(public_nonce), secret_nonce)
    \o hash_with_nonce(NonceBytes(secret_nonce), secret_nonce)
    \o hash_with_nonce(KeyBytes(broker_pk), secret_nonce)
    \o hash_with_nonce(KeyBytes(sender_pk), secret_nonce)
    \o RecipientsHash(recipients, secret_nonce)
    \o EntriesHash(message, secret_nonce)

(* ------------------- metadata.rs: envelope construction --------------- *)
\* faulty variant: the channels are built for the recipients only, the sender gets none
PartiesWithoutSender(sender_pk, recipients) == recipients

Parties(sender_pk, recipients) == <<sender_pk>> \o recipients

\* faulty variant: the participant list is sealed under the public nonce
BuildChannelPublicNonce(party_pk, parties, public_nonce, secret_nonce, broker_sk) ==
    [nonce |-> Seal(NonceBytes(secret_nonce), public_nonce, party_pk, broker_sk),
     parties |-> [i \in 1 .. Len(parties) |->
                     Seal(KeyBytes(parties[i]), public_nonce, party_pk, broker_sk)]]

BuildChannel(party_pk, parties, public_nonce, secret_nonce, broker_sk) ==
    [nonce |-> Seal(NonceBytes(secret_nonce), public_nonce, party_pk, broker_sk),
     parties |-> [i \in 1 .. Len(parties) |->
                     Seal(KeyBytes(parties[i]), secret_nonce, party_pk, broker_sk)]]

\* secret_nonce and broker_sk are the two values drawn from OsRng
new_encrypted(origin, public_nonce, sender_pk, recipients, message, secret_nonce, broker_sk) ==
    LET broker_pk == PublicKeyOf(broker_sk)
        parties == Parties(sender_pk, recipients)
    IN  [metadata |->
            [nonce |-> NonceBytes(public_nonce),
             broker |-> KeyBytes(broker_pk),
             hash |-> Finalize(compute_root_hash(origin, public_nonce, sender_pk, broker_pk,
                                                 secret_nonce, recipients, message)),
             channels |-> [j \in 1 .. Len(parties) |->
                              BuildChannel(parties[j], parties, public_nonce,
                                           secret_nonce, broker_sk)]],
         secret_nonce |-> secret_nonce]

(* ------------------- metadata.rs: channel scan ------------------------ *)
NonceLen == 1
Panicked == [ok |-> FALSE, val |-> <<>>, err |-> "panic", pk |-> 0]

\* the channels from index i on, appended to the channels recovered so far
RECURSIVE ScanFrom(_, _, _, _, _, _)
ScanFrom(chs, i, public_nonce, broker_pk, receiver_sk, acc) ==
    IF i > Len(chs) THEN Ok(acc)
    ELSE LET opened == Open(chs[i].nonce, public_nonce, broker_pk, receiver_sk)
         IN  IF ~opened.ok
             THEN ScanFrom(chs, i + 1, public_nonce, broker_pk, receiver_sk, acc)
             ELSE IF Len(opened.val) # NonceLen
             THEN Panicked
             ELSE LET secret_nonce == opened.val[1].v
                      ps == Collect([k \in 1 .. Len(chs[i].parties) |->
                                Open(chs[i].parties[k], secret_nonce, broker_pk, receiver_sk)])
                  IN  IF ~ps.ok THEN ps
                      ELSE ScanFrom(chs, i + 1, public_nonce, broker_pk, receiver_sk,
                                    Append(acc, [nonce |-> NonceBytes(secret_nonce),
                                                 parties |-> ps.val]))

\* faulty variant: the scan stops at the first channel that opens
MetadataDecryptFirstOnly(md, receiver_sk) ==
    LET r == ScanFrom(md.channels, 1, md.nonce[1].v, md.broker[1].v, receiver_sk, <<>>)
    IN  IF r.ok /\ Len(r.val) > 1 THEN Ok(<<r.val[1]>>) ELSE r

\* MessageMetadata::decrypt; Ok carries the channel list of the returned metadata
MetadataDecrypt(md, receiver_sk) ==
    ScanFrom(md.channels, 1, md.nonce[1].v, md.broker[1].v, receiver_sk, <<>>)

(* ------------------- pallet: check_message ---------------------------- *)
\* faulty variant: the blobs inside a parties list are not looked at
check_message_parts_unchecked(message, metadata) ==
    IF message = <<>> THEN "MessageMalformed"
    ELSE IF metadata.channels = <<>> THEN "MetadataMalformed"
    ELSE IF \E j \in 1 .. Len(metadata.channels) :
               LET ch == metadata.channels[j]
               IN  \/ ch.nonce = <<>>
                   \/ ch.parties = <<>>
                   \/ Len(ch.parties) # Len(metadata.channels)
         THEN "MetadataMalformed"
    ELSE "Ok"

check_message(message, metadata) ==
    IF message = <<>> THEN "MessageMalformed"
    ELSE IF metadata.channels = <<>> THEN "MetadataMalformed"
    ELSE IF \E j \in 1 .. Len(metadata.channels) :
               LET ch == metadata.channels[j]
               IN  \/ ch.nonce = <<>>
                   \/ ch.parties = <<>>
                   \/ Len(ch.parties) # Len(metadata.channels)
                   \/ \E k \in 1 .. Len(ch.parties) : ch.parties[k] = <<>>
         THEN "MetadataMalformed"
    ELSE "Ok"

(* ------------------- pallet: keys and origins ------------------------- *)
\* SCALE encoding of a u128: fixed width, little endian
EncodeU128(n) == <<B(n % 256), B(n \div 256)>>

\* faulty variant: the key is the account alone
derived_key_account_only(account, counter) == <<B(account)>>

\* MessageKey { account, counter }.encode()
derived_key(account, counter) == <<B(account)>> \o EncodeU128(counter)

Unsigned == [signed |-> FALSE, who |-> 0]
Signed(account) == [signed |-> TRUE, who |-> account]

\* counter.overflowing_add(1), the counter's width scaled down to MaxCounter
overflowing_add_1(counter) ==
    [value |-> (counter + 1) % (MaxCounter + 1), overflowed |-> counter = MaxCounter]

(* ------------------------------ inputs -------------------------------- *)
SeqsUpTo(S, n) == UNION {[1 .. k -> S] : k \in 0 .. n}

EntryKeys == {<<>>, <<B(1)>>}
EntryValues == {<<B(2)>>, <<B(1), B(2)>>}
Kinds == {"default", "other"}
Entries == [key : EntryKeys, value : EntryValues, kind : {"default"}]
              \cup [key : {<<B(1)>>}, value : {<<B(2)>>}, kind : {"other"}]
Messages == {[entries |-> es] : es \in SeqsUpTo(Entries, MaxEntries)}

(* ------------------------------ state --------------------------------- *)
Origins == 1 .. 2
ParticipantKeys == {PublicKeyOf(1), PublicKeyOf(2)}
EnvEntries == {[key |-> <<B(1)>>, value |-> <<B(2)>>, kind |-> "default"],
               [key |-> <<>>, value |-> <<B(1), B(2)>>, kind |-> "other"]}
EnvMessages == {[entries |-> es] : es \in SeqsUpTo(EnvEntries, MaxEntries)}
MessageBytes == {<<>>, <<B(7)>>}

(* ------------------------------ state --------------------------------- *)
VARIABLES mpc, mIn, mCipher, mArgs, mOut
VARIABLES epc, eIn, eRnd, envelope, eTampered, eScan, eVer, eCheck
VARIABLES MessageCounter, store, events, sent, lastCall

mvars == <<mpc, mIn, mCipher, mArgs, mOut>>
evars == <<epc, eIn, eRnd, envelope, eTampered, eScan, eVer, eCheck>>
pvars == <<MessageCounter, store, events, sent, lastCall>>
vars == <<mvars, evars, pvars>>


NoEnvelope == [nonce |-> NonceBytes(0), broker |-> KeyBytes(0), hash |-> <<>>, channels |-> <<>>]
NoArgs == [nonce |-> 0, pk |-> 0, sk |-> 0]
NoMessage == [entries |-> <<>>]

PalletIdle ==
    /\ MessageCounter = 0
    /\ store = <<>>
    /\ events = <<>>
    /\ sent = <<>>
    /\ lastCall = [origin |-> Unsigned, message |-> <<>>, metadata |-> NoEnvelope,
                   result |-> "none"]

MessageIdle ==
    /\ mpc = "idle"
    /\ mIn = [message |-> NoMessage, nonce |-> 0, sender |-> 0, receiver |-> 0]
    /\ mCipher = NoMessage
    /\ mArgs = NoArgs
    /\ mOut = Ok(NoMessage)

(* ------------------- envelope: build, store, scan, verify ------------- *)
NoHashArgs ==
    [origin |-> 0, public_nonce |-> 0, sender_pk |-> 0, broker_pk |-> 0,
     secret_nonce |-> 0, recipients |-> <<>>, message |-> NoMessage]

EnvelopeIdle ==
    /\ epc = "idle"
    /\ eIn = [origin |-> 0, public_nonce |-> 0, sender_pk |-> 0,
              recipients |-> <<>>, message |-> NoMessage]
    /\ eRnd = [secret_nonce |-> 0, broker_sk |-> 0]
    /\ envelope = NoEnvelope
    /\ eTampered = FALSE
    /\ eScan = [sk |-> 0, out |-> Ok(<<>>)]
    /\ eVer = [args |-> NoHashArgs, digest |-> <<>>]
    /\ eCheck = [message |-> <<>>, result |-> ""]

InitEnvelope ==
    /\ MessageIdle
    /\ PalletIdle
    /\ epc = "start"
    /\ eIn \in [origin : {1}, public_nonce : Nonces, sender_pk : ParticipantKeys,
                recipients : SeqsUpTo(ParticipantKeys, MaxRecipients),
                message : EnvMessages]
    /\ eRnd = [secret_nonce |-> 0, broker_sk |-> 0]
    /\ envelope = NoEnvelope
    /\ eTampered = FALSE
    /\ eScan = [sk |-> 0, out |-> Ok(<<>>)]
    /\ eVer = [args |-> NoHashArgs, digest |-> <<>>]
    /\ eCheck = [message |-> <<>>, result |-> ""]

\* MessageMetadata::new_encrypted(&origin, &nonce, &sender_pk, &recipients, &message)
Build ==
    /\ epc = "start"
    /\ \E secret_nonce \in Nonces :
         LET r == new_encrypted(eIn.origin, eIn.public_nonce, eIn.sender_pk, eIn.recipients,
                                eIn.message, secret_nonce, BrokerSecretKey)
         IN  /\ envelope' = r.metadata
             /\ eRnd' = [secret_nonce |-> r.secret_nonce, broker_sk |-> BrokerSecretKey]
    /\ epc' = "built"
    /\ UNCHANGED <<eIn, eTampered, eScan, eVer, eCheck, mvars, pvars>>

RemoveAt(s, i) == [k \in 1 .. Len(s) - 1 |-> IF k < i THEN s[k] ELSE s[k + 1]]
InsertAt(s, i, x) ==
    [k \in 1 .. Len(s) + 1 |-> IF k < i THEN s[k] ELSE IF k = i THEN x ELSE s[k - 1]]

\* a sealed blob whose plaintext was replaced by one of another length
WrongLength(blob) == <<Box(<<B(1), B(1)>>, blob[1].v.nonce, blob[1].v.key)>>

\* what storage, or whoever wrote the envelope, can hand to a reader instead
TamperedChannels(chs) ==
    {<<>>}
    \cup {RemoveAt(chs, j) : j \in 1 .. Len(chs)}
    \cup {Append(chs, chs[j]) : j \in 1 .. Len(chs)}
    \cup UNION {{[chs EXCEPT ![j].nonce = b] :
                    b \in {<<>>, Garbage, WrongLength(chs[j].nonce)}} :
                  j \in 1 .. Len(chs)}
    \cup {[chs EXCEPT ![j].parties = RemoveAt(@, Len(@))] : j \in 1 .. Len(chs)}
    \cup UNION {{[chs EXCEPT ![j].parties[k] = b] : k \in 1 .. Len(chs[j].parties),
                                                     b \in {<<>>, Garbage}} :
                  j \in 1 .. Len(chs)}

Tamper ==
    /\ epc = "built"
    /\ ~eTampered
    /\ \E chs \in TamperedChannels(envelope.channels) :
         envelope' = [envelope EXCEPT !.channels = chs]
    /\ eTampered' = TRUE
    /\ UNCHANGED <<epc, eIn, eRnd, eScan, eVer, eCheck, mvars, pvars>>

\* encrypted_metadata.decrypt(&receiver_sk)
Scan ==
    /\ epc = "built"
    /\ \E sk \in SecretKeys :
         eScan' = [sk |-> sk, out |-> MetadataDecrypt(envelope, sk)]
    /\ epc' = "scanned"
    /\ UNCHANGED <<eIn, eRnd, envelope, eTampered, eVer, eCheck, mvars, pvars>>

UsedHashArgs ==
    [origin |-> eIn.origin, public_nonce |-> eIn.public_nonce, sender_pk |-> eIn.sender_pk,
     broker_pk |-> PublicKeyOf(eRnd.broker_sk), secret_nonce |-> eRnd.secret_nonce,
     recipients |-> eIn.recipients, message |-> eIn.message]

AllKeys == PublicKeys \cup {PublicKeyOf(BrokerSecretKey), PublicKeyOf(OtherBrokerSecretKey)}

Reorders(s) == {[i \in 1 .. Len(s) |-> s[p[i]]] : p \in Permutations(1 .. Len(s))}

\* the arguments a verifier may hand to compute_root_hash: the ones used, or
\* the ones used with one field altered, a list reordered, a participant
\* added or removed, or an entry's kind changed
Alterations(a) ==
    {a}
    \cup {[a EXCEPT !.origin = o] : o \in Origins}
    \cup {[a EXCEPT !.public_nonce = n] : n \in Nonces}
    \cup {[a EXCEPT !.secret_nonce = n] : n \in Nonces}
    \cup {[a EXCEPT !.broker_pk = k] : k \in AllKeys}
    \cup {[a EXCEPT !.sender_pk = k] : k \in AllKeys}
    \cup {[a EXCEPT !.recipients[i] = k] : i \in 1 .. Len(a.recipients), k \in AllKeys}
    \cup {[a EXCEPT !.recipients = r] : r \in Reorders(a.recipients)}
    \cup {[a EXCEPT !.recipients = RemoveAt(@, i)] : i \in 1 .. Len(a.recipients)}
    \cup {[a EXCEPT !.recipients = InsertAt(@, i, k)] :
            i \in 1 .. Len(a.recipients) + 1, k \in PublicKeys}
    \cup {[a EXCEPT !.message.entries[i].key = x] :
            i \in 1 .. Len(a.message.entries), x \in EntryKeys \cup {<<B(1), B(2)>>}}
    \cup {[a EXCEPT !.message.entries[i].value = x] :
            i \in 1 .. Len(a.message.entries), x \in EntryValues \cup {<<>>}}
    \cup {[a EXCEPT !.message.entries[i].kind = x] :
            i \in 1 .. Len(a.message.entries), x \in Kinds}
    \cup {[a EXCEPT !.message.entries = r] : r \in Reorders(a.message.entries)}

\* a verifier recomputes the commitment and compares it with the stored one
Verify ==
    /\ epc = "built"
    /\ ~eTampered
    /\ \E a \in Alterations(UsedHashArgs) :
         eVer' = [args |-> a,
                  digest |-> Finalize(compute_root_hash(a.origin, a.public_nonce, a.sender_pk,
                                          a.broker_pk, a.secret_nonce, a.recipients, a.message))]
    /\ epc' = "verified"
    /\ UNCHANGED <<eIn, eRnd, envelope, eTampered, eScan, eCheck, mvars, pvars>>

\* Pallet::check_message(&message, &metadata) on the envelope as stored
Check ==
    /\ epc = "built"
    /\ \E bytes \in MessageBytes :
         eCheck' = [message |-> bytes, result |-> check_message(bytes, envelope)]
    /\ epc' = "checked"
    /\ UNCHANGED <<eIn, eRnd, envelope, eTampered, eScan, eVer, mvars, pvars>>

NextEnvelope == Build \/ Tamper \/ Scan \/ Verify \/ Check

SpecEnvelope == InitEnvelope /\ [][NextEnvelope]_vars

(* ------------------- pallet: send_message ------------------------------ *)
Accounts == 1 .. 2
PalletOrigins == {Unsigned} \cup {Signed(a) : a \in Accounts}

WellFormed(secret_nonce) ==
    new_encrypted(1, 1, PublicKeyOf(1), <<PublicKeyOf(2)>>,
                  [entries |-> <<>>], secret_nonce, BrokerSecretKey).metadata

\* one well-formed envelope, and one envelope for each way check_message rejects
MalformedMetadata ==
    LET md == WellFormed(1)
    IN  {[md EXCEPT !.channels = <<>>],
         [md EXCEPT !.channels[1].nonce = <<>>],
         [md EXCEPT !.channels[2].parties = <<>>],
         [md EXCEPT !.channels[2].parties = RemoveAt(@, 2)],
         [md EXCEPT !.channels = Append(@, @[1])],
         [md EXCEPT !.channels[1].parties[2] = <<>>]}

PalletMetadata == {WellFormed(2)} \cup MalformedMetadata
PalletMessages == {<<>>, <<B(7)>>, <<B(8)>>}

InitPallet ==
    /\ MessageIdle
    /\ EnvelopeIdle
    /\ PalletIdle

\* the extrinsic as a whole: ensure_signed, check_message, the counter, the
\* off-chain write, the counter update and the event
send_message ==
    \E origin \in PalletOrigins, metadata \in PalletMetadata, message \in PalletMessages :
        LET checked == check_message(message, metadata)
            added == overflowing_add_1(MessageCounter)
            key == derived_key(origin.who, added.value - 1)
            result == IF ~origin.signed THEN "BadOrigin"
                      ELSE IF checked # "Ok" THEN checked
                      ELSE IF added.overflowed THEN "MessageCounterOverflow"
                      ELSE "Ok"
        IN  /\ lastCall' = [origin |-> origin, message |-> message, metadata |-> metadata,
                            result |-> result]
            /\ IF result = "Ok"
               THEN /\ store' = [k \in DOMAIN store \cup {key} |->
                                    IF k = key THEN message ELSE store[k]]
                    /\ MessageCounter' = added.value
                    /\ events' = Append(events, [key |-> key, metadata |-> metadata])
                    /\ sent' = Append(sent, message)
               ELSE UNCHANGED <<MessageCounter, store, events, sent>>
            /\ UNCHANGED <<mvars, evars>>

NextPallet == send_message

SpecPallet == InitPallet /\ [][NextPallet]_vars

(* --------------- message cypher: encrypt, store, decrypt -------------- *)
InitMessage ==
    /\ EnvelopeIdle
    /\ PalletIdle
    /\ mpc = "plain"
    /\ mIn \in [message : Messages, nonce : Nonces, sender : SecretKeys, receiver : SecretKeys]
    /\ mCipher = NoMessage
    /\ mArgs = NoArgs
    /\ mOut = Ok(NoMessage)

\* message.encrypt(&nonce, &receiver_pk, &sender_sk)
DoMessageEncrypt ==
    /\ mpc = "plain"
    /\ mCipher' = MessageEncrypt(mIn.message, mIn.nonce, PublicKeyOf(mIn.receiver), mIn.sender)
    /\ mpc' = "sealed"
    /\ UNCHANGED <<mIn, mArgs, mOut, evars, pvars>>

\* the stored ciphertext is altered in one blob of one entry
AlterCipher ==
    /\ mpc = "sealed"
    /\ \E i \in 1 .. Len(mCipher.entries), f \in {"key", "value"} :
         \E blob \in {Garbage, <<>>, Seal(<<B(1)>>, mIn.nonce, PublicKeyOf(1), 3)} :
           /\ mCipher.entries[i][f] # blob
           /\ mCipher' = [entries |-> [mCipher.entries EXCEPT ![i][f] = blob]]
    /\ mpc' = "altered"
    /\ UNCHANGED <<mIn, mArgs, mOut, evars, pvars>>

\* encrypted_message.decrypt(&nonce, &sender_pk, &receiver_sk) with any arguments
DoMessageDecrypt ==
    /\ mpc \in {"sealed", "altered"}
    /\ \E n \in Nonces, pk \in PublicKeys, sk \in SecretKeys :
         /\ mArgs' = [nonce |-> n, pk |-> pk, sk |-> sk]
         /\ mOut' = MessageDecrypt(mCipher, n, pk, sk)
    /\ mpc' = IF mpc = "sealed" THEN "opened" ELSE "openedAltered"
    /\ UNCHANGED <<mIn, mCipher, evars, pvars>>

NextMessage == DoMessageEncrypt \/ AlterCipher \/ DoMessageDecrypt

SpecMessage == InitMessage /\ [][NextMessage]_vars

(* ----------------------- claims: metadata envelope -------------------- *)
Participants == <<eIn.sender_pk>> \o eIn.recipients
ParticipantSet == {Participants[i] : i \in 1 .. Len(Participants)}
ScannerKey == PublicKeyOf(eScan.sk)

\* what a participant is to recover from an untouched envelope
ExpectedChannel ==
    [nonce |-> NonceBytes(eRnd.secret_nonce),
     parties |-> [i \in 1 .. Len(Participants) |-> KeyBytes(Participants[i])]]

\* C1: every participant of [sender] ++ recipients who scans the envelope
\* returned by new_encrypted with their own secret key gets a channel, and what
\* they get carries the secret nonce new_encrypted returned and the participant
\* list [sender_pk] ++ recipients in the original order.
C1_EnvelopeRoundTrip ==
    (epc = "scanned" /\ ~eTampered /\ ScannerKey \in ParticipantSet) =>
        /\ eScan.out.ok
        /\ Len(eScan.out.val) >= 1
        /\ \A j \in 1 .. Len(eScan.out.val) : eScan.out.val[j] = ExpectedChannel

C1_Witness ==
    /\ epc = "scanned"
    /\ ~eTampered
    /\ Len(eIn.recipients) >= 2
    /\ ScannerKey = eIn.recipients[2]
    /\ ScannerKey # eIn.sender_pk
    /\ eRnd.secret_nonce # eIn.public_nonce
    /\ eScan.out.ok
    /\ Len(eScan.out.val) = 1

NonceOpens(ch) ==
    Open(ch.nonce, envelope.nonce[1].v, envelope.broker[1].v, eScan.sk)

OpeningChannels == {j \in 1 .. Len(envelope.channels) : NonceOpens(envelope.channels[j]).ok}

PartiesOpen(ch) ==
    \A k \in 1 .. Len(ch.parties) :
        Open(ch.parties[k], NonceOpens(ch).val[1].v, envelope.broker[1].v, eScan.sk).ok

Occurrences(seq, x) == Cardinality({i \in 1 .. Len(seq) : seq[i] = x})

\* C3 as stated: the scan ends with an empty list or exactly one recovered
\* channel, and never fails once a channel's secret nonce has opened.
C3_AtMostOneChannel ==
    epc = "scanned" => (eScan.out.ok /\ Len(eScan.out.val) <= 1)

\* C3 amended: the scan returns Ok with one recovered channel for every channel
\* whose nonce opens under the key, in envelope order (none, one or several),
\* or fails as a whole when a channel's nonce opens but its plaintext has not
\* the width of a nonce (panic) or one of its party blobs does not open
\* (DecryptionFailed).  For an envelope as built it returns Ok with as many
\* channels as the key occurs in [sender] ++ recipients.
C3_ScannerShape ==
    epc = "scanned" =>
        /\ eScan.out.ok =>
             /\ Len(eScan.out.val) = Cardinality(OpeningChannels)
             /\ \A j \in OpeningChannels :
                  /\ Len(NonceOpens(envelope.channels[j]).val) = NonceLen
                  /\ PartiesOpen(envelope.channels[j])
                  /\ LET n == Cardinality({i \in OpeningChannels : i <= j})
                     IN  /\ eScan.out.val[n].nonce = NonceOpens(envelope.channels[j]).val
                         /\ Len(eScan.out.val[n].parties) = Len(envelope.channels[j].parties)
        /\ ~eScan.out.ok =>
             /\ eScan.out.val = <<>>
             /\ eScan.out.err \in {"panic", "DecryptionFailed"}
             /\ \E j \in OpeningChannels :
                  \/ Len(NonceOpens(envelope.channels[j]).val) # NonceLen
                  \/ ~PartiesOpen(envelope.channels[j])
        /\ ~eTampered =>
             /\ eScan.out.ok
             /\ Len(eScan.out.val) = Occurrences(Participants, ScannerKey)

C3_Witness ==
    /\ epc = "scanned"
    /\ ~eTampered
    /\ eScan.out.ok
    /\ Len(eScan.out.val) = 2
    /\ eScan.out.val[1] = ExpectedChannel
    /\ eScan.out.val[2] = ExpectedChannel

\* C4: scanning an envelope built by new_encrypted with the secret key of a
\* key pair whose public key is not among [sender] ++ recipients returns Ok
\* with an empty channel list.
C4_NonParticipantExclusion ==
    (epc = "scanned" /\ ~eTampered /\ ScannerKey \notin ParticipantSet) =>
        eScan.out = Ok(<<>>)

C4_Witness ==
    /\ epc = "scanned"
    /\ ~eTampered
    /\ ScannerKey \notin ParticipantSet
    /\ Len(envelope.channels) >= 3
    /\ eScan.out.ok
    /\ eScan.out.val = <<>>

\* C5: an envelope built by new_encrypted has one channel per participant of
\* [sender] ++ recipients, every channel lists as many parties, entry i of
\* channel j being participant i sealed for participant j; and check_message
\* accepts an envelope only if every channel lists as many parties as there
\* are channels.
C5_ChannelShape ==
    /\ (epc # "start" /\ ~eTampered) =>
          /\ Len(envelope.channels) = 1 + Len(eIn.recipients)
          /\ \A j \in 1 .. Len(envelope.channels) :
               /\ Len(envelope.channels[j].parties) = 1 + Len(eIn.recipients)
               /\ \A i \in 1 .. Len(envelope.channels[j].parties) :
                    envelope.channels[j].parties[i] =
                        Seal(KeyBytes(Participants[i]), eRnd.secret_nonce,
                             Participants[j], eRnd.broker_sk)
    /\ (epc = "checked" /\ eCheck.result = "Ok") =>
          \A j \in 1 .. Len(envelope.channels) :
              Len(envelope.channels[j].parties) = Len(envelope.channels)

C5_Witness ==
    /\ epc = "checked"
    /\ ~eTampered
    /\ eCheck.result = "Ok"
    /\ Len(eIn.recipients) = 2
    /\ Len(envelope.channels) = 3

\* the fields the commitment binds: everything but the entries' kind
Bound(a) ==
    <<a.origin, a.public_nonce, a.secret_nonce, a.broker_pk, a.sender_pk, a.recipients,
      [i \in 1 .. Len(a.message.entries) |->
          <<a.message.entries[i].key, a.message.entries[i].value>>]>>

\* C9: the digest recomputed from the arguments used by new_encrypted is the
\* stored hash, and the digest recomputed after altering one bound field,
\* reordering recipients or entries, or adding or removing a participant
\* differs from it.
C9_CommitmentStability ==
    epc = "verified" =>
        (eVer.digest = envelope.hash <=> Bound(eVer.args) = Bound(UsedHashArgs))

C9_Witness ==
    /\ epc = "verified"
    /\ Len(eIn.message.entries) >= 2
    /\ Len(eVer.args.message.entries) = Len(eIn.message.entries)
    /\ eVer.args.message.entries # eIn.message.entries
    /\ eVer.args.message.entries[1] = eIn.message.entries[2]
    /\ eVer.digest # envelope.hash

\* the root digest, given the digest of the recipient collection
RootWith(recipients_hash) ==
    Finalize(hash_with_nonce(<<B(eIn.origin)>>, eRnd.secret_nonce)
             \o hash_with_nonce(NonceBytes(eIn.public_nonce), eRnd.secret_nonce)
             \o hash_with_nonce(NonceBytes(eRnd.secret_nonce), eRnd.secret_nonce)
             \o hash_with_nonce(KeyBytes(PublicKeyOf(eRnd.broker_sk)), eRnd.secret_nonce)
             \o hash_with_nonce(KeyBytes(eIn.sender_pk), eRnd.secret_nonce)
             \o recipients_hash
             \o EntriesHash(eIn.message, eRnd.secret_nonce))

FedPerRecipient(f(_)) ==
    Finalize(Concat([i \in 1 .. Len(eIn.recipients) |-> f(eIn.recipients[i])])
             \o NonceBytes(eRnd.secret_nonce))

\* C10 as stated: what is fed per recipient r is Hash(Hash(r || secret_nonce)).
C10_DoubleHashFed ==
    (epc = "built" /\ ~eTampered) =>
        envelope.hash =
            RootWith(FedPerRecipient(LAMBDA r :
                <<Digest(<<Digest(KeyBytes(r) \o NonceBytes(eRnd.secret_nonce))>>)>>))

\* C10 amended: what is fed per recipient r, in list order, is the single
\* salted hash Hash(r || secret_nonce), the same as for entry keys and values,
\* followed by one final update with secret_nonce.
C10_SingleHashFed ==
    (epc = "built" /\ ~eTampered) =>
        envelope.hash =
            RootWith(FedPerRecipient(LAMBDA r :
                <<Digest(KeyBytes(r) \o NonceBytes(eRnd.secret_nonce))>>))

C10_Witness ==
    /\ epc = "built"
    /\ ~eTampered
    /\ Len(eIn.recipients) >= 2
    /\ eIn.recipients[1] # eIn.recipients[2]

(* ----------------------- claims: pallet ------------------------------- *)
Malformed(md) ==
    \/ md.channels = <<>>
    \/ \E j \in 1 .. Len(md.channels) :
         \/ md.channels[j].nonce = <<>>
         \/ md.channels[j].parties = <<>>
         \/ Len(md.channels[j].parties) # Len(md.channels)
         \/ \E k \in 1 .. Len(md.channels[j].parties) : md.channels[j].parties[k] = <<>>

Called == lastCall.result # "none"

\* C7 as stated: every call with empty message bytes fails with
\* MessageMalformed and every call with malformed metadata fails with
\* MetadataMalformed.
C7_ErrorsAsStated ==
    Called =>
        /\ lastCall.message = <<>> => lastCall.result = "MessageMalformed"
        /\ Malformed(lastCall.metadata) => lastCall.result = "MetadataMalformed"

\* C7 amended: a signed call with empty message bytes fails with
\* MessageMalformed, a signed call with non-empty message bytes and malformed
\* metadata fails with MetadataMalformed (an unsigned call fails with BadOrigin
\* before either check), and every failing call leaves MessageCounter, the
\* off-chain store and the events unchanged.
C7_MalformedRejected ==
    [][/\ (lastCall'.origin.signed /\ lastCall'.message = <<>>)
            => lastCall'.result = "MessageMalformed"
       /\ (lastCall'.origin.signed /\ lastCall'.message # <<>>
              /\ Malformed(lastCall'.metadata))
            => lastCall'.result = "MetadataMalformed"
       /\ ~lastCall'.origin.signed => lastCall'.result = "BadOrigin"
       /\ lastCall'.result # "Ok"
            => UNCHANGED <<MessageCounter, store, events, sent>>]_vars

C7_Witness ==
    /\ lastCall.origin.signed
    /\ lastCall.message # <<>>
    /\ lastCall.metadata.channels # <<>>
    /\ Malformed(lastCall.metadata)
    /\ lastCall.result = "MetadataMalformed"
    /\ Len(events) >= 1
    /\ MessageCounter = Len(events)

\* C8: every MessageSent event names a key under which the off-chain store
\* holds the message bytes of the call that emitted it; no two events name
\* the same key; the store holds nothing that was not announced.
C8_AnnouncedIsFetchable ==
    /\ Len(sent) = Len(events)
    /\ MessageCounter = Len(events)
    /\ \A i \in 1 .. Len(events) :
         /\ events[i].key \in DOMAIN store
         /\ store[events[i].key] = sent[i]
    /\ \A i, j \in 1 .. Len(events) : i # j => events[i].key # events[j].key
    /\ DOMAIN store = {events[i].key : i \in 1 .. Len(events)}

C8_Witness ==
    /\ Len(events) >= 2
    /\ events[1].key[1] = events[2].key[1]
    /\ sent[1] # sent[2]
    /\ store[events[1].key] = sent[1]

(* ----------------------- claims: message cypher ----------------------- *)
MatchingArgs ==
    mArgs = [nonce |-> mIn.nonce, pk |-> PublicKeyOf(mIn.sender), sk |-> mIn.receiver]

\* C2: decrypting an unaltered encrypted message with the same nonce, the
\* sender's public key and the receiver's secret key succeeds and returns the
\* original message: same entries, same order, same key, value and kind.
C2_MessageRoundTrip ==
    (mpc = "opened" /\ MatchingArgs) => mOut = Ok(mIn.message)

C2_Witness ==
    /\ mpc = "opened"
    /\ MatchingArgs
    /\ mIn.sender # mIn.receiver
    /\ Len(mIn.message.entries) >= 2
    /\ mIn.message.entries[1] # mIn.message.entries[2]
    /\ mOut.ok

EntryOpens(e) ==
    /\ Open(e.key, mArgs.nonce, mArgs.pk, mArgs.sk).ok
    /\ Open(e.value, mArgs.nonce, mArgs.pk, mArgs.sk).ok

\* C6: Message::decrypt returns Ok exactly when the key and the value of every
\* entry open; otherwise it returns DecryptionFailed and no message, whatever
\* the position of the failing entry and however many other entries open.
C6_AllOrNothing ==
    mpc \in {"opened", "openedAltered"} =>
        /\ mOut.ok <=> \A i \in 1 .. Len(mCipher.entries) : EntryOpens(mCipher.entries[i])
        /\ mOut.ok => Len(mOut.val.entries) = Len(mCipher.entries)
        /\ ~mOut.ok => (mOut.val = <<>> /\ mOut.err = "DecryptionFailed")

C6_Witness ==
    /\ mpc = "openedAltered"
    /\ Len(mCipher.entries) >= 2
    /\ EntryOpens(mCipher.entries[1])
    /\ ~EntryOpens(mCipher.entries[2])
    /\ ~mOut.ok

=============================================================================
